---- MODULE Spec2Model ----
(***************************************************************************)
(* Model of the mafs numeric kernel: 2- and 4-lane vectors and the 4x4     *)
(* matrix, in both precisions (Dvec2, Dvec4, Dmat4 on AVX registers,       *)
(* Fvec4, Fmat4 on SSE registers, Fvec2 on a plain array).                 *)
(*                                                                         *)
(* A scalar is an IEEE-754 value in sign/class/magnitude form.  The finite *)
(* values of the model are the integers of magnitude up to MaxFinite, so   *)
(* sums and products are exact until they overflow to an infinity and only *)
(* a quotient rounds; signed zeros, the two infinities and NaN follow the  *)
(* IEEE-754 rules.  A register is a function from lane numbers (0 first)   *)
(* to scalars; every intrinsic is modelled by the lane movement or lane    *)
(* arithmetic the instruction performs.                                    *)
(*                                                                         *)
(* The library is a set of pure functions over values.  A state is one     *)
(* call: the receiver type ty, the operation op, the operands a, b         *)
(* (vectors), m, n (matrices), sc (scalar), ix (index), and after the      *)
(* call the results rv (vector), rm (matrix), rb (boolean), rs (scalar).   *)
(* pc is "call" before the call, then "ret" when it returned, "panic" when *)
(* it panicked, "no_impl" when the build has no implementation for it.     *)
(***************************************************************************)
EXTENDS Integers, FiniteSets, Sequences, TLC

VARIABLES pc, ty, op, a, b, m, n, sc, ix, rv, rm, rb, rs

vars == <<pc, ty, op, a, b, m, n, sc, ix, rv, rm, rb, rs>>

\* Largest magnitude of a finite operand lane.
MaxVal == 2

\* Largest finite magnitude of the scalar format.
MaxFinite == 4095

\* Largest index tried on a vector or a matrix.
MaxIndex == 5

-----------------------------------------------------------------------------
(* IEEE-754 scalars *)

Abs(x) == IF x < 0 THEN -x ELSE x

\* The finite scalar of integer value x (+0.0 for x = 0).
F(x) == [c |-> "fin", s |-> IF x < 0 THEN 1 ELSE 0, g |-> Abs(x)]

NegZero == [c |-> "fin", s |-> 1, g |-> 0]
PosInf == [c |-> "inf", s |-> 0, g |-> 0]
NegInf == [c |-> "inf", s |-> 1, g |-> 0]
NaN == [c |-> "nan", s |-> 0, g |-> 0]

zero == F(0)
one == F(1)

IsNaN(x) == x.c = "nan"
IsZero(x) == x.c = "fin" /\ x.g = 0

\* Signed integer value of a finite scalar.
IntOf(x) == IF x.s = 1 THEN -(x.g) ELSE x.g

\* The exact nonzero result r as a scalar: beyond the largest finite magnitude
\* it is the infinity of its sign.
Rounded(r) ==
    IF Abs(r) > MaxFinite THEN [c |-> "inf", s |-> IF r < 0 THEN 1 ELSE 0, g |-> 0]
    ELSE F(r)

\* x + y, round-to-nearest: an exact zero sum is +0 unless both are -0.
fadd(x, y) ==
    IF IsNaN(x) \/ IsNaN(y) THEN NaN
    ELSE IF x.c = "inf" THEN (IF y.c = "inf" /\ y.s # x.s THEN NaN ELSE x)
    ELSE IF y.c = "inf" THEN y
    ELSE LET r == IntOf(x) + IntOf(y) IN
         IF r # 0 THEN Rounded(r)
         ELSE IF x.s = 1 /\ y.s = 1 THEN NegZero ELSE zero

\* Sign flip (IEEE negate).
fchs(x) == IF IsNaN(x) THEN NaN ELSE [x EXCEPT !.s = 1 - x.s]

\* x - y is x + (-y).
fsub(x, y) == fadd(x, fchs(y))

\* x * y: the sign is the xor of the signs; 0 * inf is NaN.
fmul(x, y) ==
    IF IsNaN(x) \/ IsNaN(y) THEN NaN
    ELSE IF (x.c = "inf" /\ IsZero(y)) \/ (y.c = "inf" /\ IsZero(x)) THEN NaN
    ELSE LET sg == IF x.s = y.s THEN 0 ELSE 1 IN
         IF x.c = "inf" \/ y.c = "inf" THEN [c |-> "inf", s |-> sg, g |-> 0]
         ELSE IF x.g * y.g > MaxFinite THEN [c |-> "inf", s |-> sg, g |-> 0]
         ELSE [c |-> "fin", s |-> sg, g |-> x.g * y.g]

\* Fused x * y + z with a single rounding: the product is not rounded (it
\* cannot overflow on its own), only the sum is.
ffma(x, y, z) ==
    IF x.c = "fin" /\ y.c = "fin" /\ z.c = "inf" THEN z
    ELSE IF x.c = "fin" /\ y.c = "fin" /\ z.c = "fin"
            /\ IntOf(x) * IntOf(y) + IntOf(z) # 0
         THEN Rounded(IntOf(x) * IntOf(y) + IntOf(z))
    ELSE fadd(fmul(x, y), z)

\* x / y, round-to-nearest-even on the integers: x / 0 is an infinity, 0 / 0 and
\* inf / inf are NaN, a quotient below one half is a signed zero.
fdiv(x, y) ==
    IF IsNaN(x) \/ IsNaN(y) THEN NaN
    ELSE IF (x.c = "inf" /\ y.c = "inf") \/ (IsZero(x) /\ IsZero(y)) THEN NaN
    ELSE LET sg == IF x.s = y.s THEN 0 ELSE 1 IN
         IF x.c = "inf" \/ IsZero(y) THEN [c |-> "inf", s |-> sg, g |-> 0]
         ELSE IF y.c = "inf" THEN [c |-> "fin", s |-> sg, g |-> 0]
         ELSE LET q == x.g \div y.g
                  r == x.g % y.g
                  up == 2 * r > y.g \/ (2 * r = y.g /\ q % 2 = 1)
              IN [c |-> "fin", s |-> sg, g |-> IF up THEN q + 1 ELSE q]

\* floor: every finite scalar of the model is a whole number, which floor keeps
\* with its sign (floor(-0.0) is -0.0); infinities and NaN are kept as well.
ffloor(x) == IF x.c = "fin" THEN [c |-> "fin", s |-> x.s, g |-> x.g] ELSE x

\* sqrt, rounded to the nearest integer (the square root of an integer is never
\* half way between two integers): sqrt(-0.0) is -0.0, the square root of a
\* negative number is NaN, sqrt(+inf) is +inf.
fsqrt(x) ==
    IF IsNaN(x) \/ IsZero(x) THEN x
    ELSE IF x.s = 1 THEN NaN
    ELSE IF x.c = "inf" THEN x
    ELSE F(CHOOSE k \in 1..x.g :
               (2 * k - 1) * (2 * k - 1) < 4 * x.g /\ 4 * x.g < (2 * k + 1) * (2 * k + 1))

\* Ordered x < y: false when either is NaN; -0 and +0 are not ordered.
flt(x, y) ==
    IF IsNaN(x) \/ IsNaN(y) THEN FALSE
    ELSE IF x.c = "inf" THEN x.s = 1 /\ ~(y.c = "inf" /\ y.s = 1)
    ELSE IF y.c = "inf" THEN y.s = 0
    ELSE IntOf(x) < IntOf(y)

\* Ordered x == y: false when either is NaN; -0 == +0.
feq(x, y) ==
    IF IsNaN(x) \/ IsNaN(y) THEN FALSE
    ELSE IF x.c = "inf" \/ y.c = "inf" THEN x.c = y.c /\ x.s = y.s
    ELSE IntOf(x) = IntOf(y)


-----------------------------------------------------------------------------
(* Registers and the intrinsics the library calls *)

Lanes2 == 0..1
Lanes4 == 0..3

Reg2(e0, e1) == [i \in Lanes2 |-> IF i = 0 THEN e0 ELSE e1]
Reg4(e0, e1, e2, e3) ==
    [i \in Lanes4 |-> CASE i = 0 -> e0 [] i = 1 -> e1 [] i = 2 -> e2 [] OTHER -> e3]

\* The set intrinsics take the highest lane first.
mm_set_pd(e1, e0) == Reg2(e0, e1)
mm_set_ps(e3, e2, e1, e0) == Reg4(e0, e1, e2, e3)
mm256_set_pd(e3, e2, e1, e0) == Reg4(e0, e1, e2, e3)

\* Lane-wise arithmetic, any register width.
mm_add(x, y) == [i \in DOMAIN x |-> fadd(x[i], y[i])]
mm_sub(x, y) == [i \in DOMAIN x |-> fsub(x[i], y[i])]
mm_mul(x, y) == [i \in DOMAIN x |-> fmul(x[i], y[i])]
\* fmadd(x, y, z) is x * y + z in each lane.
mm_fmadd(x, y, z) == [i \in DOMAIN x |-> ffma(x[i], y[i], z[i])]
\* MINPD/MINPS: x if x < y, else the second operand (also for a NaN or two zeros).
mm_min(x, y) == [i \in DOMAIN x |-> IF flt(x[i], y[i]) THEN x[i] ELSE y[i]]
\* MAXPD/MAXPS: x if x > y, else the second operand.
mm_max(x, y) == [i \in DOMAIN x |-> IF flt(y[i], x[i]) THEN x[i] ELSE y[i]]

\* MINSD/MINSS, MAXSD/MAXSS, ADDSD/ADDSS: lane 0 of the packed operation, the
\* other lanes are those of x.
mm_min_s(x, y) == [x EXCEPT ![0] = mm_min(x, y)[0]]
mm_max_s(x, y) == [x EXCEPT ![0] = mm_max(x, y)[0]]
mm_add_s(x, y) == [x EXCEPT ![0] = mm_add(x, y)[0]]
\* cvtsd_f64 / cvtss_f32: the scalar in lane 0.
mm_cvts(x) == x[0]
mm_floor(x) == [i \in DOMAIN x |-> ffloor(x[i])]
mm_div(x, y) == [i \in DOMAIN x |-> fdiv(x[i], y[i])]

\* The low 128 bits of a 256-bit register, and its 128-bit half number imm.
mm256_castpd256_pd128(x) == Reg2(x[0], x[1])
mm256_extractf128_pd(imm, x) == Reg2(x[2 * imm], x[2 * imm + 1])
\* vpermilpd on 128 bits: bit i of the immediate picks the source of lane i.
mm_permute_pd(imm, x) == Reg2(x[imm % 2], x[(imm \div 2) % 2])

\* Two-bit field number k of an immediate.
Field(imm, k) == (imm \div (4 ^ k)) % 4

\* vpermpd / vpermilps with an 8-bit immediate: lane i takes lane Field(imm, i).
mm256_permute4x64_pd(imm, x) == [i \in Lanes4 |-> x[Field(imm, i)]]
mm_permute_ps(imm, x) == [i \in Lanes4 |-> x[Field(imm, i)]]

\* Interleave within each 128-bit half (pd) or across the register (ps).
mm256_unpacklo_pd(x, y) == Reg4(x[0], y[0], x[2], y[2])
mm256_unpackhi_pd(x, y) == Reg4(x[1], y[1], x[3], y[3])
mm_unpacklo_ps(x, y) == Reg4(x[0], y[0], x[1], y[1])
mm_unpackhi_ps(x, y) == Reg4(x[2], y[2], x[3], y[3])
mm_movelh_ps(x, y) == Reg4(x[0], x[1], y[0], y[1])
mm_movehl_ps(x, y) == Reg4(y[2], y[3], x[2], x[3])

\* One 128-bit half chosen by a 4-bit control: bit 3 zeroes it, bits 1:0 pick
\* x.low, x.high, y.low, y.high; k is the lane within the half.
Half128(ctl, x, y, k) ==
    IF (ctl \div 8) % 2 = 1 THEN zero
    ELSE CASE ctl % 4 = 0 -> x[k]
           [] ctl % 4 = 1 -> x[2 + k]
           [] ctl % 4 = 2 -> y[k]
           [] OTHER -> y[2 + k]
mm256_permute2f128_pd(imm, x, y) ==
    Reg4(Half128(imm % 16, x, y, 0), Half128(imm % 16, x, y, 1),
         Half128(imm \div 16, x, y, 0), Half128(imm \div 16, x, y, 1))

\* Compare-equal (ordered, quiet): each lane of the mask is all ones or all zeros.
mm_cmpeq(x, y) == [i \in DOMAIN x |-> feq(x[i], y[i])]

\* movemask_epi8 over a mask of lanes w bytes wide: the set of the bit positions
\* set in the result, one bit per byte of the register.
mm_movemask_epi8(mask, w) ==
    {k \in 0..(w * Cardinality(DOMAIN mask) - 1) : mask[k \div w]}

\* The bits set in 0xffff and in 0xffffffff.
Bits16 == 0..15
Bits32 == 0..31

-----------------------------------------------------------------------------
(* Dvec4: four f64 lanes in a __m256d *)

Dvec4_new(x, y, z, w) == mm256_set_pd(w, z, y, x)
Dvec4_add_componentwise(self, rhs) == mm_add(self, rhs)
Dvec4_sub_componentwise(self, rhs) == mm_sub(self, rhs)
Dvec4_mul_componentwise(self, rhs) == mm_mul(self, rhs)
Dvec4_min_componentwise(self, rhs) == mm_min(self, rhs)
Dvec4_max_componentwise(self, rhs) == mm_max(self, rhs)

\* Dvec4_eq_reduce testing the low 16 bits of the mask only (lanes 0 and 1).
Dvec4_eq_reduce_low16(self, rhs) ==
    LET mask == mm_cmpeq(self, rhs)
        reduce == mm_movemask_epi8(mask, 8)
    IN Bits16 \subseteq reduce

Dvec4_eq_reduce(self, rhs) ==
    LET mask == mm_cmpeq(self, rhs)
        reduce == mm_movemask_epi8(mask, 8)
    IN reduce = Bits32

Dvec4_div_componentwise(self, rhs) == mm_div(self, rhs)

Dvec4_min_reduce(self) ==
    LET reduce128 == mm_min(mm256_castpd256_pd128(self), mm256_extractf128_pd(1, self))
        reduce64 == mm_min_s(reduce128, mm_permute_pd(1, reduce128))
    IN mm_cvts(reduce64)

Dvec4_max_reduce(self) ==
    LET reduce128 == mm_max(mm256_castpd256_pd128(self), mm256_extractf128_pd(1, self))
        reduce64 == mm_max_s(reduce128, mm_permute_pd(1, reduce128))
    IN mm_cvts(reduce64)

Dvec4_dot(self, rhs) ==
    LET prod == mm_mul(self, rhs)
        reduce128 == mm_add(mm256_castpd256_pd128(prod), mm256_extractf128_pd(1, prod))
        reduce64 == mm_add_s(reduce128, mm_permute_pd(1, reduce128))
    IN mm_cvts(reduce64)

\* Permutation (1, 2, 0, 3) = 0b_11_00_10_01 = 201
Dvec4_cross(self, rhs) ==
    LET left == mm_mul(self, mm256_permute4x64_pd(201, rhs))
        right == mm_mul(rhs, mm256_permute4x64_pd(201, self))
    IN mm256_permute4x64_pd(201, mm_sub(left, right))

(* Fvec4: four f32 lanes in a __m128 *)

Fvec4_new(x, y, z, w) == mm_set_ps(w, z, y, x)
Fvec4_add_componentwise(self, rhs) == mm_add(self, rhs)
Fvec4_sub_componentwise(self, rhs) == mm_sub(self, rhs)
Fvec4_mul_componentwise(self, rhs) == mm_mul(self, rhs)
Fvec4_min_componentwise(self, rhs) == mm_min(self, rhs)
Fvec4_max_componentwise(self, rhs) == mm_max(self, rhs)

Fvec4_eq_reduce(self, rhs) ==
    LET mask == mm_cmpeq(self, rhs)
        reduce == mm_movemask_epi8(mask, 4)
    IN reduce = Bits16

Fvec4_div_componentwise(self, rhs) == mm_div(self, rhs)

\* 0b_11_10 = 14
Fvec4_min_reduce(self) ==
    LET reduce64 == mm_min(self, mm_permute_ps(14, self))
        reduce32 == mm_min_s(reduce64, mm_permute_ps(1, reduce64))
    IN mm_cvts(reduce32)

\* Fvec4_max_reduce folding lane 2 onto lanes 0 and 1 (0b_10_10 = 10), so lane 3
\* never takes part.
Fvec4_max_reduce_without_lane3(self) ==
    LET reduce64 == mm_max(self, mm_permute_ps(10, self))
        reduce32 == mm_max_s(reduce64, mm_permute_ps(1, reduce64))
    IN mm_cvts(reduce32)

Fvec4_max_reduce(self) ==
    LET reduce64 == mm_max(self, mm_permute_ps(14, self))
        reduce32 == mm_max_s(reduce64, mm_permute_ps(1, reduce64))
    IN mm_cvts(reduce32)

\* Fvec4_dot summing the products from lane 0 to lane 3.
Fvec4_dot_left_to_right(self, rhs) ==
    LET prod == mm_mul(self, rhs)
    IN fadd(fadd(fadd(prod[0], prod[1]), prod[2]), prod[3])

Fvec4_dot(self, rhs) ==
    LET prod == mm_mul(self, rhs)
        reduce64 == mm_add(prod, mm_permute_ps(14, prod))
        reduce32 == mm_add_s(reduce64, mm_permute_ps(1, reduce64))
    IN mm_cvts(reduce32)

\* Fvec4_cross without the final permutation of the difference.
Fvec4_cross_unpermuted(self, rhs) ==
    LET left == mm_mul(self, mm_permute_ps(201, rhs))
        right == mm_mul(rhs, mm_permute_ps(201, self))
    IN mm_sub(left, right)

Fvec4_cross(self, rhs) ==
    LET left == mm_mul(self, mm_permute_ps(201, rhs))
        right == mm_mul(rhs, mm_permute_ps(201, self))
    IN mm_permute_ps(201, mm_sub(left, right))

(* Dvec2: two f64 lanes in a __m128d *)

\* Dvec2_new passing its arguments to the set intrinsic in their own order.
Dvec2_new_unreversed(x, y) == mm_set_pd(x, y)

Dvec2_new(x, y) == mm_set_pd(y, x)
Dvec2_add_componentwise(self, rhs) == mm_add(self, rhs)
Dvec2_sub_componentwise(self, rhs) == mm_sub(self, rhs)
Dvec2_mul_componentwise(self, rhs) == mm_mul(self, rhs)
Dvec2_min_componentwise(self, rhs) == mm_min(self, rhs)
Dvec2_max_componentwise(self, rhs) == mm_max(self, rhs)

Dvec2_eq_reduce(self, rhs) ==
    LET mask == mm_cmpeq(self, rhs)
        reduce == mm_movemask_epi8(mask, 8)
    IN reduce = Bits16

Dvec2_div_componentwise(self, rhs) == mm_div(self, rhs)

Dvec2_floor(self) == mm_floor(self)

Dvec2_min_reduce(self) ==
    LET perm == mm_permute_pd(1, self)
        reduce == mm_min(self, perm)
    IN mm_cvts(reduce)

Dvec2_max_reduce(self) ==
    LET perm == mm_permute_pd(1, self)
        reduce == mm_max(self, perm)
    IN mm_cvts(reduce)

Dvec2_dot(self, rhs) ==
    LET prod == mm_mul(self, rhs)
        reduce64 == mm_add_s(prod, mm_permute_pd(1, prod))
    IN mm_cvts(reduce64)

(* Fvec2: two f32 in a plain array, scalar arithmetic *)

\* f32::min / f32::max: a NaN operand loses to the other operand.
f32_min(x, y) == IF IsNaN(x) THEN y ELSE IF IsNaN(y) THEN x
                 ELSE IF flt(y, x) THEN y ELSE x
f32_max(x, y) == IF IsNaN(x) THEN y ELSE IF IsNaN(y) THEN x
                 ELSE IF flt(x, y) THEN y ELSE x

Fvec2_new(x, y) == Reg2(x, y)
Fvec2_add_componentwise(self, rhs) == Reg2(fadd(self[0], rhs[0]), fadd(self[1], rhs[1]))
Fvec2_sub_componentwise(self, rhs) == Reg2(fsub(self[0], rhs[0]), fsub(self[1], rhs[1]))
Fvec2_mul_componentwise(self, rhs) == Reg2(fmul(self[0], rhs[0]), fmul(self[1], rhs[1]))
Fvec2_min_componentwise(self, rhs) ==
    Reg2(f32_min(self[0], rhs[0]), f32_min(self[1], rhs[1]))
Fvec2_max_componentwise(self, rhs) ==
    Reg2(f32_max(self[0], rhs[0]), f32_max(self[1], rhs[1]))
Fvec2_div_componentwise(self, rhs) == Reg2(fdiv(self[0], rhs[0]), fdiv(self[1], rhs[1]))
Fvec2_floor(self) == Reg2(ffloor(self[0]), ffloor(self[1]))
Fvec2_min_reduce(self) == f32_min(self[0], self[1])
Fvec2_max_reduce(self) == f32_max(self[0], self[1])
Fvec2_eq_reduce(self, rhs) == feq(self[0], rhs[0]) /\ feq(self[1], rhs[1])

\* Fvec2_dot multiplying lane 1 of self by lane 0 of rhs.
Fvec2_dot_rhs0_twice(self, rhs) == fadd(fmul(self[0], rhs[0]), fmul(self[1], rhs[0]))

Fvec2_dot(self, rhs) == fadd(fmul(self[0], rhs[0]), fmul(self[1], rhs[1]))

-----------------------------------------------------------------------------
(* The traits Vec2 / Vec4 and the operators of implement_vecops!, by type *)

VecTypes2 == {"Dvec2", "Fvec2"}
VecTypes4 == {"Dvec4", "Fvec4"}
MatTypes == {"Dmat4", "Fmat4"}

\* The column type V of a matrix type.
ColumnType(M) == IF M = "Dmat4" THEN "Dvec4" ELSE "Fvec4"

Vec2_new(T, x, y) == IF T = "Dvec2" THEN Dvec2_new(x, y) ELSE Fvec2_new(x, y)
Vec4_new(T, x, y, z, w) ==
    IF T = "Dvec4" THEN Dvec4_new(x, y, z, w) ELSE Fvec4_new(x, y, z, w)

\* splat setting the first lane only.
splat_first_lane(T, value) ==
    IF T \in VecTypes2 THEN Vec2_new(T, value, zero)
    ELSE Vec4_new(T, value, zero, zero, zero)

splat(T, value) ==
    IF T \in VecTypes2 THEN Vec2_new(T, value, value)
    ELSE Vec4_new(T, value, value, value, value)

add_componentwise(T, self, rhs) ==
    CASE T = "Dvec4" -> Dvec4_add_componentwise(self, rhs)
      [] T = "Fvec4" -> Fvec4_add_componentwise(self, rhs)
      [] T = "Dvec2" -> Dvec2_add_componentwise(self, rhs)
      [] T = "Fvec2" -> Fvec2_add_componentwise(self, rhs)

sub_componentwise(T, self, rhs) ==
    CASE T = "Dvec4" -> Dvec4_sub_componentwise(self, rhs)
      [] T = "Fvec4" -> Fvec4_sub_componentwise(self, rhs)
      [] T = "Dvec2" -> Dvec2_sub_componentwise(self, rhs)
      [] T = "Fvec2" -> Fvec2_sub_componentwise(self, rhs)

mul_componentwise(T, self, rhs) ==
    CASE T = "Dvec4" -> Dvec4_mul_componentwise(self, rhs)
      [] T = "Fvec4" -> Fvec4_mul_componentwise(self, rhs)
      [] T = "Dvec2" -> Dvec2_mul_componentwise(self, rhs)
      [] T = "Fvec2" -> Fvec2_mul_componentwise(self, rhs)

Vec2_floor(T, self) == IF T = "Dvec2" THEN Dvec2_floor(self) ELSE Fvec2_floor(self)

min_componentwise(T, self, rhs) ==
    CASE T = "Dvec4" -> Dvec4_min_componentwise(self, rhs)
      [] T = "Fvec4" -> Fvec4_min_componentwise(self, rhs)
      [] T = "Dvec2" -> Dvec2_min_componentwise(self, rhs)
      [] T = "Fvec2" -> Fvec2_min_componentwise(self, rhs)

max_componentwise(T, self, rhs) ==
    CASE T = "Dvec4" -> Dvec4_max_componentwise(self, rhs)
      [] T = "Fvec4" -> Fvec4_max_componentwise(self, rhs)
      [] T = "Dvec2" -> Dvec2_max_componentwise(self, rhs)
      [] T = "Fvec2" -> Fvec2_max_componentwise(self, rhs)

eq_reduce(T, self, rhs) ==
    CASE T = "Dvec4" -> Dvec4_eq_reduce(self, rhs)
      [] T = "Fvec4" -> Fvec4_eq_reduce(self, rhs)
      [] T = "Dvec2" -> Dvec2_eq_reduce(self, rhs)
      [] T = "Fvec2" -> Fvec2_eq_reduce(self, rhs)

div_componentwise(T, self, rhs) ==
    CASE T = "Dvec4" -> Dvec4_div_componentwise(self, rhs)
      [] T = "Fvec4" -> Fvec4_div_componentwise(self, rhs)
      [] T = "Dvec2" -> Dvec2_div_componentwise(self, rhs)
      [] T = "Fvec2" -> Fvec2_div_componentwise(self, rhs)

min_reduce(T, self) ==
    CASE T = "Dvec4" -> Dvec4_min_reduce(self)
      [] T = "Fvec4" -> Fvec4_min_reduce(self)
      [] T = "Dvec2" -> Dvec2_min_reduce(self)
      [] T = "Fvec2" -> Fvec2_min_reduce(self)

max_reduce(T, self) ==
    CASE T = "Dvec4" -> Dvec4_max_reduce(self)
      [] T = "Fvec4" -> Fvec4_max_reduce(self)
      [] T = "Dvec2" -> Dvec2_max_reduce(self)
      [] T = "Fvec2" -> Fvec2_max_reduce(self)

dot(T, self, rhs) ==
    CASE T = "Dvec4" -> Dvec4_dot(self, rhs)
      [] T = "Fvec4" -> Fvec4_dot(self, rhs)
      [] T = "Dvec2" -> Dvec2_dot(self, rhs)
      [] T = "Fvec2" -> Fvec2_dot(self, rhs)

cross(T, self, rhs) ==
    IF T = "Dvec4" THEN Dvec4_cross(self, rhs) ELSE Fvec4_cross(self, rhs)

\* The view of a vector, or of a matrix, as the array of its lanes, or columns:
\* the element at offset k of the storage is element k of the array (the arrays
\* of the model are sequences, whose first element has number 1).
as_array(self) == [k \in 1..Cardinality(DOMAIN self) |-> self[k - 1]]

\* Indexing with the remainder of the index instead of a bounds check.
ArrayIndex_wrapping(arr, idx) == [ok |-> TRUE, value |-> arr[(idx % Len(arr)) + 1]]

\* array[idx] on a fixed-length array: the bounds check fails (ok is FALSE, the
\* program panics) for an index that is not below the length.
ArrayIndex(arr, idx) ==
    IF idx < Len(arr) THEN [ok |-> TRUE, value |-> arr[idx + 1]]
    ELSE [ok |-> FALSE, value |-> zero]

\* Vector + Vector, Vector - Vector, Vector * Vector, Vector / Vector
Vec_op(T, o, self, rhs) ==
    CASE o = "+" -> add_componentwise(T, self, rhs)
      [] o = "-" -> sub_componentwise(T, self, rhs)
      [] o = "*" -> mul_componentwise(T, self, rhs)
      [] o = "/" -> div_componentwise(T, self, rhs)

\* norm that leaves out the square root.
norm_squared(T, self) == dot(T, self, self)

norm(T, self) == fsqrt(dot(T, self, self))

normalize(T, self) == Vec_op(T, "/", self, splat(T, norm(T, self)))

\* Vector op Scalar broadcasts the scalar.
Vec_op_scalar(T, o, self, rhs) == Vec_op(T, o, self, splat(T, rhs))

\* Vector -= Vector that adds.
Vec_op_assign_sub_adds(T, o, self, rhs) ==
    CASE o = "+" -> add_componentwise(T, self, rhs)
      [] o = "-" -> add_componentwise(T, self, rhs)
      [] o = "*" -> mul_componentwise(T, self, rhs)
      [] o = "/" -> div_componentwise(T, self, rhs)

\* Vector op= Vector: the value stored in *self.
Vec_op_assign(T, o, self, rhs) ==
    CASE o = "+" -> add_componentwise(T, self, rhs)
      [] o = "-" -> sub_componentwise(T, self, rhs)
      [] o = "*" -> mul_componentwise(T, self, rhs)
      [] o = "/" -> div_componentwise(T, self, rhs)

\* Vector op= Scalar: the value stored in *self.
Vec_op_assign_scalar(T, o, self, rhs) ==
    CASE o = "+" -> add_componentwise(T, self, splat(T, rhs))
      [] o = "-" -> sub_componentwise(T, self, splat(T, rhs))
      [] o = "*" -> mul_componentwise(T, self, splat(T, rhs))
      [] o = "/" -> div_componentwise(T, self, splat(T, rhs))

\* The vector types implement_scalarops! is invoked for.
ScalarOpsTypes == {"Dvec4", "Dvec2", "Fvec2"}

\* Scalar op Vector broadcasts the scalar.
Scalar_op_vec(T, o, self, rhs) == Vec_op(T, o, splat(T, self), rhs)

\* Negation by a flip of the sign of each lane.
Vec_neg_sign_flip(T, self) == [i \in DOMAIN self |-> fchs(self[i])]

\* Negation that adds to zero instead of subtracting from it.
Vec_neg_added(T, self) == add_componentwise(T, splat(T, zero), self)

\* -Vector
Vec_neg(T, self) == sub_componentwise(T, splat(T, zero), self)

\* Vector == Vector
Vec_eq(T, self, rhs) == eq_reduce(T, self, rhs)


-----------------------------------------------------------------------------
(* Dmat4 / Fmat4: four columns, inner: [V; 4] *)

Arr4(e0, e1, e2, e3) ==
    [j \in Lanes4 |-> CASE j = 0 -> e0 [] j = 1 -> e1 [] j = 2 -> e2 [] OTHER -> e3]

Dmat4_from_columns(x, y, z, w) == Arr4(x, y, z, w)
Fmat4_from_columns(x, y, z, w) == Arr4(x, y, z, w)

\* Broadcast immediates: 0b_00_00_00_00 = 0, 0b_01_01_01_01 = 85,
\* 0b_10_10_10_10 = 170, 0b_11_11_11_11 = 255.
Dmat4_mul_vector(self, rhs) ==
    LET r0 == mm_mul(self[0], mm256_permute4x64_pd(0, rhs))
        r1 == mm_fmadd(self[1], mm256_permute4x64_pd(85, rhs), r0)
        r2 == mm_fmadd(self[2], mm256_permute4x64_pd(170, rhs), r1)
        r3 == mm_fmadd(self[3], mm256_permute4x64_pd(255, rhs), r2)
    IN r3

\* Fmat4_mul_vector broadcasting lane 2 of rhs for column 3 as well.
Fmat4_mul_vector_lane2_twice(self, rhs) ==
    LET r0 == mm_mul(self[0], mm_permute_ps(0, rhs))
        r1 == mm_fmadd(self[1], mm_permute_ps(85, rhs), r0)
        r2 == mm_fmadd(self[2], mm_permute_ps(170, rhs), r1)
        r3 == mm_fmadd(self[3], mm_permute_ps(170, rhs), r2)
    IN r3

Fmat4_mul_vector(self, rhs) ==
    LET r0 == mm_mul(self[0], mm_permute_ps(0, rhs))
        r1 == mm_fmadd(self[1], mm_permute_ps(85, rhs), r0)
        r2 == mm_fmadd(self[2], mm_permute_ps(170, rhs), r1)
        r3 == mm_fmadd(self[3], mm_permute_ps(255, rhs), r2)
    IN r3

\* Dmat4_transpose with the immediates of d1 and d2 exchanged.
Dmat4_transpose_d1_d2(self) ==
    LET c0 == mm256_unpacklo_pd(self[0], self[1])
        c1 == mm256_unpackhi_pd(self[0], self[1])
        c2 == mm256_unpacklo_pd(self[2], self[3])
        c3 == mm256_unpackhi_pd(self[2], self[3])
        d0 == mm256_permute2f128_pd(32, c0, c2)
        d1 == mm256_permute2f128_pd(49, c0, c2)
        d2 == mm256_permute2f128_pd(32, c1, c3)
        d3 == mm256_permute2f128_pd(49, c1, c3)
    IN Arr4(d0, d1, d2, d3)

\* 0b_00_10_00_00 = 32, 0b_00_11_00_01 = 49
Dmat4_transpose(self) ==
    LET c0 == mm256_unpacklo_pd(self[0], self[1])
        c1 == mm256_unpackhi_pd(self[0], self[1])
        c2 == mm256_unpacklo_pd(self[2], self[3])
        c3 == mm256_unpackhi_pd(self[2], self[3])
        d0 == mm256_permute2f128_pd(32, c0, c2)
        d1 == mm256_permute2f128_pd(32, c1, c3)
        d2 == mm256_permute2f128_pd(49, c0, c2)
        d3 == mm256_permute2f128_pd(49, c1, c3)
    IN Dmat4_from_columns(d0, d1, d2, d3)

\* Fmat4_transpose with the columns d1 and d2 exchanged.
Fmat4_transpose_d1_d2(self) ==
    LET c0 == mm_unpacklo_ps(self[0], self[1])
        c1 == mm_unpackhi_ps(self[0], self[1])
        c2 == mm_unpacklo_ps(self[2], self[3])
        c3 == mm_unpackhi_ps(self[2], self[3])
        d0 == mm_movelh_ps(c0, c2)
        d1 == mm_movelh_ps(c1, c3)
        d2 == mm_movehl_ps(c2, c0)
        d3 == mm_movehl_ps(c3, c1)
    IN Fmat4_from_columns(d0, d1, d2, d3)

Fmat4_transpose(self) ==
    LET c0 == mm_unpacklo_ps(self[0], self[1])
        c1 == mm_unpackhi_ps(self[0], self[1])
        c2 == mm_unpacklo_ps(self[2], self[3])
        c3 == mm_unpackhi_ps(self[2], self[3])
        d0 == mm_movelh_ps(c0, c2)
        d1 == mm_movehl_ps(c2, c0)
        d2 == mm_movelh_ps(c1, c3)
        d3 == mm_movehl_ps(c3, c1)
    IN Fmat4_from_columns(d0, d1, d2, d3)

-----------------------------------------------------------------------------
(* The trait Mat4 and the operators of implement_matops!, by type *)

from_columns(M, x, y, z, w) ==
    IF M = "Dmat4" THEN Dmat4_from_columns(x, y, z, w)
    ELSE Fmat4_from_columns(x, y, z, w)

mul_vector(M, self, rhs) ==
    IF M = "Dmat4" THEN Dmat4_mul_vector(self, rhs) ELSE Fmat4_mul_vector(self, rhs)

transpose(M, self) ==
    IF M = "Dmat4" THEN Dmat4_transpose(self) ELSE Fmat4_transpose(self)

\* Matrix[index] and Matrix[index] = value, for an index within the array.
Mat_index(self, idx) == self[idx]
Mat_index_set(self, idx, value) == [self EXCEPT ![idx] = value]
\* Vector[index] = value
Vec_index_set(self, idx, value) == [self EXCEPT ![idx] = value]

Mat_splat(M, value) ==
    LET V == ColumnType(M) IN
    from_columns(M, splat(V, value), splat(V, value), splat(V, value), splat(V, value))

\* identity with an all-zero last column.
identity_without_w(M) ==
    LET V == ColumnType(M) IN
    from_columns(M,
        Vec4_new(V, one, zero, zero, zero),
        Vec4_new(V, zero, one, zero, zero),
        Vec4_new(V, zero, zero, one, zero),
        Vec4_new(V, zero, zero, zero, zero))

identity(M) ==
    LET V == ColumnType(M) IN
    from_columns(M,
        Vec4_new(V, one, zero, zero, zero),
        Vec4_new(V, zero, one, zero, zero),
        Vec4_new(V, zero, zero, one, zero),
        Vec4_new(V, zero, zero, zero, one))

\* from_rows taking each row for a column.
from_rows_as_columns(M, r0, r1, r2, r3) ==
    LET V == ColumnType(M) IN
    from_columns(M,
        Vec4_new(V, r0[0], r0[1], r0[2], r0[3]),
        Vec4_new(V, r1[0], r1[1], r1[2], r1[3]),
        Vec4_new(V, r2[0], r2[1], r2[2], r2[3]),
        Vec4_new(V, r3[0], r3[1], r3[2], r3[3]))

\* The rows are arrays [S; 4], element 0 first.
from_rows(M, r0, r1, r2, r3) ==
    LET V == ColumnType(M) IN
    from_columns(M,
        Vec4_new(V, r0[0], r1[0], r2[0], r3[0]),
        Vec4_new(V, r0[1], r1[1], r2[1], r3[1]),
        Vec4_new(V, r0[2], r1[2], r2[2], r3[2]),
        Vec4_new(V, r0[3], r1[3], r2[3], r3[3]))

\* mul_matrix transforming column 2 of rhs twice.
mul_matrix_column2_twice(M, self, rhs) ==
    from_columns(M,
        mul_vector(M, self, Mat_index(rhs, 0)),
        mul_vector(M, self, Mat_index(rhs, 1)),
        mul_vector(M, self, Mat_index(rhs, 2)),
        mul_vector(M, self, Mat_index(rhs, 2)))

mul_matrix(M, self, rhs) ==
    from_columns(M,
        mul_vector(M, self, Mat_index(rhs, 0)),
        mul_vector(M, self, Mat_index(rhs, 1)),
        mul_vector(M, self, Mat_index(rhs, 2)),
        mul_vector(M, self, Mat_index(rhs, 3)))

\* inverse_se3 without the negation of the rotated translation.
inverse_se3_not_negated(M, self) ==
    LET V == ColumnType(M)
        p == Mat_index(self, 3)
        m1 == Mat_index_set(self, 3, Vec4_new(V, zero, zero, zero, one))
        m2 == transpose(M, m1)
        m3 == Mat_index_set(m2, 3, mul_vector(M, m2, p))
    IN Mat_index_set(m3, 3, Vec_index_set(Mat_index(m3, 3), 3, one))

\* inverse_se3 that transposes with the translation still in column 3.
inverse_se3_column3_kept(M, self) ==
    LET V == ColumnType(M)
        p == Mat_index(self, 3)
        m2 == transpose(M, self)
        m3 == Mat_index_set(m2, 3, Vec_neg(V, mul_vector(M, m2, p)))
    IN Mat_index_set(m3, 3, Vec_index_set(Mat_index(m3, 3), 3, one))

\* inverse_se3 that leaves the rotation block as it is.
inverse_se3_untransposed(M, self) ==
    LET V == ColumnType(M)
        p == Mat_index(self, 3)
        m1 == Mat_index_set(self, 3, Vec4_new(V, zero, zero, zero, one))
        m3 == Mat_index_set(m1, 3, Vec_neg(V, mul_vector(M, m1, p)))
    IN Mat_index_set(m3, 3, Vec_index_set(Mat_index(m3, 3), 3, one))

\* inverse_se3 without the final m[3][3] = 1.
inverse_se3_lane3_kept(M, self) ==
    LET V == ColumnType(M)
        p == Mat_index(self, 3)
        m1 == Mat_index_set(self, 3, Vec4_new(V, zero, zero, zero, one))
        m2 == transpose(M, m1)
    IN Mat_index_set(m2, 3, Vec_neg(V, mul_vector(M, m2, p)))

inverse_se3(M, self) ==
    LET V == ColumnType(M)
        p == Mat_index(self, 3)
        m1 == Mat_index_set(self, 3, Vec4_new(V, zero, zero, zero, one))
        m2 == transpose(M, m1)
        m3 == Mat_index_set(m2, 3, Vec_neg(V, mul_vector(M, m2, p)))
    IN Mat_index_set(m3, 3, Vec_index_set(Mat_index(m3, 3), 3, one))

Mat_add_componentwise(M, self, rhs) ==
    LET V == ColumnType(M) IN
    from_columns(M,
        Vec_op(V, "+", Mat_index(self, 0), Mat_index(rhs, 0)),
        Vec_op(V, "+", Mat_index(self, 1), Mat_index(rhs, 1)),
        Vec_op(V, "+", Mat_index(self, 2), Mat_index(rhs, 2)),
        Vec_op(V, "+", Mat_index(self, 3), Mat_index(rhs, 3)))

Mat_sub_componentwise(M, self, rhs) ==
    LET V == ColumnType(M) IN
    from_columns(M,
        Vec_op(V, "-", Mat_index(self, 0), Mat_index(rhs, 0)),
        Vec_op(V, "-", Mat_index(self, 1), Mat_index(rhs, 1)),
        Vec_op(V, "-", Mat_index(self, 2), Mat_index(rhs, 2)),
        Vec_op(V, "-", Mat_index(self, 3), Mat_index(rhs, 3)))

\* -Matrix
Mat_neg(M, self) == Mat_sub_componentwise(M, Mat_splat(M, zero), self)

\* Matrix * Vector
Mat_mul_vec(M, self, rhs) == mul_vector(M, self, rhs)

\* Matrix * Matrix
Mat_mul(M, self, rhs) == mul_matrix(M, self, rhs)

\* Matrix + Matrix, Matrix - Matrix, Matrix * Matrix
Mat_op(M, o, self, rhs) ==
    CASE o = "+" -> Mat_add_componentwise(M, self, rhs)
      [] o = "-" -> Mat_sub_componentwise(M, self, rhs)
      [] o = "*" -> mul_matrix(M, self, rhs)

\* Matrix op= Matrix: the value stored in *self.
Mat_op_assign(M, o, self, rhs) ==
    CASE o = "+" -> Mat_add_componentwise(M, self, rhs)
      [] o = "-" -> Mat_sub_componentwise(M, self, rhs)
      [] o = "*" -> mul_matrix(M, self, rhs)

\* Matrix == Matrix (derived PartialEq on the array of columns)
Mat_eq(M, self, rhs) ==
    \A j \in Lanes4 : Vec_eq(ColumnType(M), self[j], rhs[j])

-----------------------------------------------------------------------------
(* Operands *)

FinVals == {F(x) : x \in (-MaxVal)..MaxVal}
Specials == {NegZero, PosInf, NegInf, NaN}
Scalars == FinVals \cup Specials

Vec2Inputs(T) == {Vec2_new(T, x, y) : x, y \in Scalars}

Vec4All(T) == {Vec4_new(T, x, y, z, w) : x, y, z, w \in Scalars}

\* The vectors with lanes at the ends of the finite range, or 0 or 1.
BigVecs(T) ==
    {Vec4_new(T, x, y, z, w) : x, y, z, w \in {F(MaxFinite), F(-MaxFinite), zero, one}}

\* The vectors of the documentation examples: a, b scaled by two (b has a lane
\* 2.5), and the v of the matrix examples.
DocA(T) == Vec4_new(T, F(2), F(3), F(5), F(6))
DocB2(T) == Vec4_new(T, F(12), F(18), F(5), F(6))
DocV(T) == Vec4_new(T, F(17), F(18), F(19), F(20))

\* The vectors that differ from one of `bases` in at most one lane.
OneLane(bases) ==
    bases \cup {Vec_index_set(base, i, x) : base \in bases, i \in Lanes4, x \in Scalars}

Vec4Inputs(T) == OneLane({splat(T, zero), DocA(T), DocB2(T)})
MulVecInputs(T) == OneLane({splat(T, zero), DocV(T)})

\* The matrices m1 and m2 of the documentation examples.
DocM1(M) ==
    LET V == ColumnType(M) IN
    from_columns(M,
        Vec4_new(V, F(1), F(2), F(3), F(4)),
        Vec4_new(V, F(5), F(6), F(7), F(8)),
        Vec4_new(V, F(9), F(10), F(11), F(12)),
        Vec4_new(V, F(13), F(14), F(15), F(16)))
DocM2(M) ==
    LET V == ColumnType(M) IN
    from_columns(M,
        Vec4_new(V, F(17), F(18), F(19), F(20)),
        Vec4_new(V, F(21), F(22), F(23), F(24)),
        Vec4_new(V, F(25), F(26), F(27), F(28)),
        Vec4_new(V, F(29), F(30), F(31), F(32)))

\* The matrices that differ from one of `bases` in at most one lane of one column.
OneEntry(bases) ==
    bases \cup
    {Mat_index_set(base, j, Vec_index_set(Mat_index(base, j), i, x)) :
        base \in bases, j \in Lanes4, i \in Lanes4, x \in Scalars}

GeneralMats(M) == OneEntry({Mat_splat(M, zero), identity(M), DocM1(M)})

\* The rigid transforms with exactly representable lanes: the rotation block is
\* a signed permutation matrix (column j has sg[j] in lane f[j]), the translation
\* t is finite, the bottom row is (0, 0, 0, 1).
Lanes3 == 0..2
Perms3 == {f \in [Lanes3 -> Lanes3] : \A i, j \in Lanes3 : i # j => f[i] # f[j]}
Signs3 == [Lanes3 -> {-1, 1}]
TransVals == FinVals \cup {NegZero}
RotColumn(V, f, sg, j) ==
    Vec4_new(V, IF f[j] = 0 THEN F(sg[j]) ELSE zero,
                IF f[j] = 1 THEN F(sg[j]) ELSE zero,
                IF f[j] = 2 THEN F(sg[j]) ELSE zero, zero)
RigidMat(M, f, sg, t) ==
    LET V == ColumnType(M) IN
    from_columns(M, RotColumn(V, f, sg, 0), RotColumn(V, f, sg, 1),
                 RotColumn(V, f, sg, 2), Vec4_new(V, t[0], t[1], t[2], one))
RigidMats(M) ==
    {RigidMat(M, f, sg, t) : f \in Perms3, sg \in Signs3, t \in [Lanes3 -> TransVals]}

-----------------------------------------------------------------------------
(* Calls *)

ZeroVec == splat("Dvec4", zero)
ZeroMat == Mat_splat("Dmat4", zero)

\* A pending call of operation o on receiver type T, with a scalar operand
\* and an index operand.
CallWith(T, o, x, y, p, q, value, i) ==
    /\ pc = "call" /\ ty = T /\ op = o
    /\ a = x /\ b = y /\ m = p /\ n = q /\ sc = value /\ ix = i
    /\ rv = ZeroVec /\ rm = ZeroMat /\ rb = FALSE /\ rs = zero

\* A pending call of operation o on receiver type T.
Call(T, o, x, y, p, q) == CallWith(T, o, x, y, p, q, zero, 0)

\* The call returns; the operands are passed by value and stay as they are.
Return(vec, mat, bool) ==
    /\ pc' = "ret" /\ rv' = vec /\ rm' = mat /\ rb' = bool
    /\ UNCHANGED <<ty, op, a, b, m, n, sc, ix, rs>>

\* The call returns a scalar.
ReturnScalar(value) ==
    /\ pc' = "ret" /\ rs' = value
    /\ UNCHANGED <<ty, op, a, b, m, n, sc, ix, rv, rm, rb>>

InitVec2 ==
    \E T \in VecTypes2, o \in {"eq_reduce", "min_componentwise", "max_componentwise"} :
        \E x, y \in Vec2Inputs(T) : Call(T, o, x, y, ZeroMat, ZeroMat)

InitVec4 ==
    \E T \in VecTypes4, o \in {"eq_reduce", "min_componentwise", "max_componentwise"} :
        \E x, y \in Vec4Inputs(T) : Call(T, o, x, y, ZeroMat, ZeroMat)

InitCross ==
    \E T \in VecTypes4 :
        \E x, y \in Vec4Inputs(T) : Call(T, "cross", x, y, ZeroMat, ZeroMat)

InitTranspose ==
    \E M \in MatTypes :
        \E p \in GeneralMats(M) : Call(M, "transpose", ZeroVec, ZeroVec, p, ZeroMat)

InitMulVector ==
    \E M \in MatTypes :
        \E p \in GeneralMats(M), x \in MulVecInputs(ColumnType(M)) :
            Call(M, "mul_vector", x, ZeroVec, p, ZeroMat)

InitMulMatrix ==
    \E M \in MatTypes :
        \E p \in OneEntry({DocM1(M)}), q \in OneEntry({DocM2(M)}) :
            Call(M, "mul_matrix", ZeroVec, ZeroVec, p, q)

InitMulIdentity ==
    \E M \in MatTypes :
        \E p \in GeneralMats(M) :
            \/ Call(M, "mul_matrix", ZeroVec, ZeroVec, p, identity(M))
            \/ Call(M, "mul_matrix", ZeroVec, ZeroVec, identity(M), p)

\* For "from_rows" the operand m holds the four rows, r0 first.
InitFromRows ==
    \E M \in MatTypes :
        \E p \in GeneralMats(M) : Call(M, "from_rows", ZeroVec, ZeroVec, p, ZeroMat)

\* The operations Dvec2 and Fvec2 share.
Shared2Ops ==
    {"v+v", "v-v", "v*v", "v/v", "min_componentwise", "max_componentwise",
     "floor", "min_reduce", "max_reduce", "eq_reduce", "dot"}

InitShared2 ==
    \E T \in VecTypes2, o \in Shared2Ops :
        \E x, y \in Vec2Inputs(T) : Call(T, o, x, y, ZeroMat, ZeroMat)

InitNormalize ==
    \/ \E T \in VecTypes2 :
          \E x \in Vec2Inputs(T) : Call(T, "normalize", x, ZeroVec, ZeroMat, ZeroMat)
    \/ \E T \in VecTypes4 :
          \E x \in Vec4All(T) \cup Vec4Inputs(T) \cup BigVecs(T) :
              Call(T, "normalize", x, ZeroVec, ZeroMat, ZeroMat)

\* a + splat(0) and a * splat(1).
InitNeutral ==
    \E T \in VecTypes2 \cup VecTypes4 :
        \E x \in (IF T \in VecTypes2 THEN Vec2Inputs(T)
                  ELSE Vec4All(T) \cup Vec4Inputs(T) \cup BigVecs(T)) :
            \/ Call(T, "v+v", x, splat(T, zero), ZeroMat, ZeroMat)
            \/ Call(T, "v*v", x, splat(T, one), ZeroMat, ZeroMat)

VecScalarOps == {"v+s", "v-s", "v*s", "v/s"}
ScalarVecOps == {"s+v", "s-v", "s*v", "s/v"}
VecAssignOps == {"v+=v", "v-=v", "v*=v", "v/=v"}
VecAssignScalarOps == {"v+=s", "v-=s", "v*=s", "v/=s"}
MatAssignOps == {"m+=m", "m-=m", "m*=m"}
MatOps == {"m+m", "m-m", "m*m"}

\* The compound assignments, and the operators they correspond to.
InitAssign ==
    \/ \E T \in VecTypes2, o \in VecAssignOps \cup {"v+v", "v-v", "v*v", "v/v"} :
          \E x \in Vec2Inputs(T), y \in {Vec2_new(T, e, F(2)) : e \in Scalars} :
              Call(T, o, x, y, ZeroMat, ZeroMat)
    \/ \E T \in VecTypes4, o \in VecAssignOps \cup {"v+v", "v-v", "v*v", "v/v"} :
          \E x \in Vec4Inputs(T), y \in OneLane({DocB2(T)}) :
              Call(T, o, x, y, ZeroMat, ZeroMat)
    \/ \E T \in VecTypes2 \cup VecTypes4, o \in VecAssignScalarOps \cup VecScalarOps :
          \E x \in (IF T \in VecTypes2 THEN Vec2Inputs(T) ELSE Vec4Inputs(T)),
             value \in Scalars :
              CallWith(T, o, x, ZeroVec, ZeroMat, ZeroMat, value, 0)
    \/ \E M \in MatTypes, o \in MatAssignOps \cup MatOps :
          \E p \in GeneralMats(M),
             q \in {DocM2(M), identity(M), Mat_index_set(DocM2(M), 1, splat(ColumnType(M), NaN))} :
              Call(M, o, ZeroVec, ZeroVec, p, q)

InitInverseSe3 ==
    \E M \in MatTypes :
        \E p \in GeneralMats(M) \cup RigidMats(M) :
            Call(M, "inverse_se3", ZeroVec, ZeroVec, p, ZeroMat)

InitReduce ==
    \E T \in VecTypes2 \cup VecTypes4, o \in {"min_reduce", "max_reduce"} :
        \E x \in (IF T \in VecTypes2 THEN Vec2Inputs(T) ELSE Vec4All(T)) :
            Call(T, o, x, ZeroVec, ZeroMat, ZeroMat)

InitDot ==
    \/ \E T \in VecTypes2, o \in {"dot", "v*v"} :
          \E x, y \in {Vec2_new(T, e0, e1) :
                          e0, e1 \in Scalars \cup {F(MaxFinite), F(-MaxFinite)}} :
              Call(T, o, x, y, ZeroMat, ZeroMat)
    \/ \E T \in VecTypes4, o \in {"dot", "v*v"} :
          \/ \E x, y \in Vec4Inputs(T) : Call(T, o, x, y, ZeroMat, ZeroMat)
          \/ \E x \in BigVecs(T), y \in {splat(T, one), DocA(T)} :
                Call(T, o, x, y, ZeroMat, ZeroMat)

InitScalarOps ==
    \E T \in VecTypes2 \cup VecTypes4, o \in VecScalarOps \cup ScalarVecOps :
        \E x \in (IF T \in VecTypes2 THEN Vec2Inputs(T) ELSE Vec4Inputs(T)),
           value \in Scalars :
            CallWith(T, o, x, ZeroVec, ZeroMat, ZeroMat, value, 0)

InitNeg ==
    \/ \E T \in VecTypes2 \cup VecTypes4 :
          \E x \in (IF T \in VecTypes2 THEN Vec2Inputs(T) ELSE Vec4All(T)) :
              Call(T, "-v", x, ZeroVec, ZeroMat, ZeroMat)
    \/ \E M \in MatTypes :
          \E p \in GeneralMats(M) : Call(M, "-m", ZeroVec, ZeroVec, p, ZeroMat)

\* For "new" the operand a holds the arguments, in the order they are written.
InitIndex ==
    \/ \E T \in VecTypes2 \cup VecTypes4 :
          \E x \in (IF T \in VecTypes2 THEN [Lanes2 -> Scalars] ELSE [Lanes4 -> Scalars]) :
              Call(T, "new", x, ZeroVec, ZeroMat, ZeroMat)
    \/ \E T \in VecTypes2 \cup VecTypes4, i \in 0..MaxIndex :
          \E x \in (IF T \in VecTypes2 THEN Vec2Inputs(T) ELSE Vec4Inputs(T)) :
              \/ CallWith(T, "v[i]", x, ZeroVec, ZeroMat, ZeroMat, zero, i)
              \/ \E value \in Scalars :
                    CallWith(T, "v[i]=s", x, ZeroVec, ZeroMat, ZeroMat, value, i)
    \/ \E M \in MatTypes, i \in 0..MaxIndex :
          \/ \E p \in GeneralMats(M) :
                CallWith(M, "m[j]", ZeroVec, ZeroVec, p, ZeroMat, zero, i)
          \/ \E p \in {DocM1(M), identity(M)}, x \in MulVecInputs(ColumnType(M)) :
                CallWith(M, "m[j]=v", x, ZeroVec, p, ZeroMat, zero, i)

EqReduce ==
    /\ pc = "call" /\ op = "eq_reduce"
    /\ Return(rv, rm, Vec_eq(ty, a, b))

MinComponentwise ==
    /\ pc = "call" /\ op = "min_componentwise"
    /\ Return(min_componentwise(ty, a, b), rm, rb)

MaxComponentwise ==
    /\ pc = "call" /\ op = "max_componentwise"
    /\ Return(max_componentwise(ty, a, b), rm, rb)

Cross ==
    /\ pc = "call" /\ op = "cross"
    /\ Return(cross(ty, a, b), rm, rb)

Transpose ==
    /\ pc = "call" /\ op = "transpose"
    /\ Return(rv, transpose(ty, m), rb)

MulVector ==
    /\ pc = "call" /\ op = "mul_vector"
    /\ Return(Mat_mul_vec(ty, m, a), rm, rb)

MulMatrix ==
    /\ pc = "call" /\ op = "mul_matrix"
    /\ Return(rv, Mat_mul(ty, m, n), rb)

FromRows ==
    /\ pc = "call" /\ op = "from_rows"
    /\ Return(rv, from_rows(ty, m[0], m[1], m[2], m[3]), rb)

InverseSe3 ==
    /\ pc = "call" /\ op = "inverse_se3"
    /\ Return(rv, inverse_se3(ty, m), rb)

Floor ==
    /\ pc = "call" /\ op = "floor"
    /\ Return(Vec2_floor(ty, a), rm, rb)

Normalize ==
    /\ pc = "call" /\ op = "normalize"
    /\ Return(normalize(ty, a), rm, rb)

MinReduce ==
    /\ pc = "call" /\ op = "min_reduce"
    /\ ReturnScalar(min_reduce(ty, a))

MaxReduce ==
    /\ pc = "call" /\ op = "max_reduce"
    /\ ReturnScalar(max_reduce(ty, a))

Dot ==
    /\ pc = "call" /\ op = "dot"
    /\ ReturnScalar(dot(ty, a, b))

\* The symbol of the operator a call names ("v*s" is Vector * Scalar).
Symbol(o) ==
    CASE o \in {"v+v", "v+s", "s+v", "v+=v", "v+=s", "m+m", "m+=m"} -> "+"
      [] o \in {"v-v", "v-s", "s-v", "v-=v", "v-=s", "m-m", "m-=m"} -> "-"
      [] o \in {"v*v", "v*s", "s*v", "v*=v", "v*=s", "m*m", "m*=m"} -> "*"
      [] o \in {"v/v", "v/s", "s/v", "v/=v", "v/=s"} -> "/"

VecOpVec ==
    /\ pc = "call" /\ op \in {"v+v", "v-v", "v*v", "v/v"}
    /\ Return(Vec_op(ty, Symbol(op), a, b), rm, rb)

\* Vector op= Vector: *self is overwritten.
VecAssign ==
    /\ pc = "call" /\ op \in VecAssignOps
    /\ pc' = "ret" /\ a' = Vec_op_assign(ty, Symbol(op), a, b)
    /\ UNCHANGED <<ty, op, b, m, n, sc, ix, rv, rm, rb, rs>>

\* Vector op= Scalar
VecAssignScalar ==
    /\ pc = "call" /\ op \in VecAssignScalarOps
    /\ pc' = "ret" /\ a' = Vec_op_assign_scalar(ty, Symbol(op), a, sc)
    /\ UNCHANGED <<ty, op, b, m, n, sc, ix, rv, rm, rb, rs>>

\* Matrix op= Matrix
MatAssign ==
    /\ pc = "call" /\ op \in MatAssignOps
    /\ pc' = "ret" /\ m' = Mat_op_assign(ty, Symbol(op), m, n)
    /\ UNCHANGED <<ty, op, a, b, n, sc, ix, rv, rm, rb, rs>>

\* Matrix op Matrix
MatOpMat ==
    /\ pc = "call" /\ op \in MatOps
    /\ Return(rv, Mat_op(ty, Symbol(op), m, n), rb)

VecOpScalar ==
    /\ pc = "call" /\ op \in VecScalarOps
    /\ Return(Vec_op_scalar(ty, Symbol(op), a, sc), rm, rb)

\* The build has no implementation of the operator for these operand types.
NoImpl ==
    /\ pc' = "no_impl"
    /\ UNCHANGED <<ty, op, a, b, m, n, sc, ix, rv, rm, rb, rs>>

ScalarOpVec ==
    /\ pc = "call" /\ op \in ScalarVecOps
    /\ IF ty \in ScalarOpsTypes
       THEN Return(Scalar_op_vec(ty, Symbol(op), sc, a), rm, rb)
       ELSE NoImpl

VecNeg ==
    /\ pc = "call" /\ op = "-v"
    /\ Return(Vec_neg(ty, a), rm, rb)

MatNeg ==
    /\ pc = "call" /\ op = "-m"
    /\ Return(rv, Mat_neg(ty, m), rb)

New ==
    /\ pc = "call" /\ op = "new"
    /\ Return(IF ty \in VecTypes2 THEN Vec2_new(ty, a[0], a[1])
              ELSE Vec4_new(ty, a[0], a[1], a[2], a[3]), rm, rb)

\* The bounds check of an index failed: nothing is read and nothing is written.
Panic ==
    /\ pc' = "panic"
    /\ UNCHANGED <<ty, op, a, b, m, n, sc, ix, rv, rm, rb, rs>>

\* Vector[index]
VecIndex ==
    /\ pc = "call" /\ op = "v[i]"
    /\ LET r == ArrayIndex(as_array(a), ix) IN
       IF r.ok THEN ReturnScalar(r.value) ELSE Panic

\* Vector[index] = value, on the vector a itself
VecIndexMut ==
    /\ pc = "call" /\ op = "v[i]=s"
    /\ IF ArrayIndex(as_array(a), ix).ok
       THEN /\ pc' = "ret" /\ a' = Vec_index_set(a, ix, sc)
            /\ UNCHANGED <<ty, op, b, m, n, sc, ix, rv, rm, rb, rs>>
       ELSE Panic

\* Matrix[index]
MatIndex ==
    /\ pc = "call" /\ op = "m[j]"
    /\ LET r == ArrayIndex(as_array(m), ix) IN
       IF r.ok THEN Return(r.value, rm, rb) ELSE Panic

\* Matrix[index] = value, on the matrix m itself
MatIndexMut ==
    /\ pc = "call" /\ op = "m[j]=v"
    /\ IF ArrayIndex(as_array(m), ix).ok
       THEN /\ pc' = "ret" /\ m' = Mat_index_set(m, ix, a)
            /\ UNCHANGED <<ty, op, a, b, n, sc, ix, rv, rm, rb, rs>>
       ELSE Panic

Init ==
    \/ InitVec2 \/ InitVec4 \/ InitCross
    \/ InitTranspose \/ InitMulVector \/ InitMulMatrix \/ InitInverseSe3
    \/ InitReduce \/ InitDot \/ InitMulIdentity \/ InitScalarOps \/ InitNeg
    \/ InitIndex
    \/ InitFromRows
    \/ InitShared2
    \/ InitNormalize
    \/ InitNeutral
    \/ InitAssign

Next ==
    \/ EqReduce \/ MinComponentwise \/ MaxComponentwise \/ Cross
    \/ Transpose \/ MulVector \/ MulMatrix \/ InverseSe3
    \/ MinReduce \/ MaxReduce \/ Dot \/ VecOpVec
    \/ VecOpScalar \/ ScalarOpVec \/ VecNeg \/ MatNeg
    \/ New \/ VecIndex \/ VecIndexMut \/ MatIndex \/ MatIndexMut
    \/ FromRows
    \/ Floor
    \/ Normalize
    \/ VecAssign \/ VecAssignScalar \/ MatAssign \/ MatOpMat

Spec == Init /\ [][Next]_vars

\* Componentwise comparison and selection of two vectors.
SpecVec == (InitVec2 \/ InitVec4) /\ [][EqReduce \/ MinComponentwise \/ MaxComponentwise]_vars

\* The cross product.
SpecCross == InitCross /\ [][Cross]_vars

\* Matrix transpose and products.
SpecMat ==
    /\ InitTranspose \/ InitMulVector \/ InitMulMatrix \/ InitMulIdentity
       \/ InitFromRows
    /\ [][Transpose \/ MulVector \/ MulMatrix \/ FromRows]_vars

\* The rigid-transform inverse.
SpecSe3 == InitInverseSe3 /\ [][InverseSe3]_vars

\* The reductions of one vector to a scalar.
SpecVec2 ==
    /\ InitShared2
    /\ [][EqReduce \/ MinComponentwise \/ MaxComponentwise \/ Floor
           \/ MinReduce \/ MaxReduce \/ Dot \/ VecOpVec]_vars

SpecNormalize == InitNormalize /\ [][Normalize]_vars

SpecNeutral == InitNeutral /\ [][VecOpVec]_vars

SpecAssign ==
    /\ InitAssign
    /\ [][VecAssign \/ VecAssignScalar \/ MatAssign
           \/ VecOpVec \/ VecOpScalar \/ MatOpMat]_vars

SpecReduce == InitReduce /\ [][MinReduce \/ MaxReduce]_vars

\* The dot product and the product of two vectors.
SpecDot == InitDot /\ [][Dot \/ VecOpVec]_vars

\* The operators between a vector and a scalar.
SpecScalarOps == InitScalarOps /\ [][VecOpScalar \/ ScalarOpVec]_vars

\* Negation of a vector and of a matrix.
SpecNeg == InitNeg /\ [][VecNeg \/ MatNeg]_vars

\* Construction and the index view of vectors and matrices.
SpecIndex == InitIndex /\ [][New \/ VecIndex \/ VecIndexMut \/ MatIndex \/ MatIndexMut]_vars

Returned(o) == pc = "ret" /\ op = o

-----------------------------------------------------------------------------
(* Properties *)

IsFinite(x) == x.c = "fin"

\* Sum of the products of lanes 0..2 of two columns with finite lanes.
Dot3(x, y) ==
    IntOf(x[0]) * IntOf(y[0]) + IntOf(x[1]) * IntOf(y[1]) + IntOf(x[2]) * IntOf(y[2])

\* The upper-left 3x3 block is orthonormal.
Orthonormal3(p) ==
    /\ \A j, i \in Lanes3 : IsFinite(p[j][i])
    /\ \A j, k \in Lanes3 : Dot3(p[j], p[k]) = IF j = k THEN 1 ELSE 0

\* Lane 3 of columns 0..2 is zero.
BottomZero(p) == \A j \in Lanes3 : IsZero(p[j][3])

\* A rigid transform: orthonormal rotation block, finite translation in lanes
\* 0..2 of column 3, bottom row (0, 0, 0, 1).
IsRigid(p) ==
    /\ Orthonormal3(p)
    /\ BottomZero(p)
    /\ \A i \in Lanes3 : IsFinite(p[3][i])
    /\ p[3][3] = one

\* Column 3 is (0, 0, 0, 1) and lane 3 of columns 0..2 is zero.
RotationFrame(p) ==
    /\ BottomZero(p)
    /\ \A i \in Lanes3 : IsZero(p[3][i])
    /\ p[3][3] = one

\* IEEE-754 equality of two lanes, stated on the representation.
IeeeEqual(x, y) ==
    /\ ~IsNaN(x) /\ ~IsNaN(y)
    /\ x = y \/ (IsZero(x) /\ IsZero(y))

\* The transpose of DocM1 given in the documentation.
DocM1Transposed(M) ==
    LET V == ColumnType(M) IN
    from_columns(M,
        Vec4_new(V, F(1), F(5), F(9), F(13)),
        Vec4_new(V, F(2), F(6), F(10), F(14)),
        Vec4_new(V, F(3), F(7), F(11), F(15)),
        Vec4_new(V, F(4), F(8), F(12), F(16)))

\* C1: transpose is the exact row/column swap in both precisions: lane i of
\* column j of the result is lane j of column i of the operand, bit for bit,
\* and m1 of the documentation becomes the matrix the documentation gives.
C1_TransposeSwaps ==
    Returned("transpose") =>
        /\ \A i, j \in Lanes4 : rm[j][i] = m[i][j]
        /\ m = DocM1(ty) => rm = DocM1Transposed(ty)

C1_Witness ==
    /\ Returned("transpose") /\ ty = "Dmat4" /\ m = DocM1(ty)
    /\ rm[1][2] = F(10) /\ rm[2][1] = F(7)

\* C2: for a rigid transform M whose lanes are exactly representable (signed
\* permutation rotation block, integer translation), M * M.inverse_se3() equals
\* identity() under the matrix equality operator, hence within any tolerance.
C2_InverseSe3RightInverse ==
    (Returned("inverse_se3") /\ IsRigid(m)) =>
        Mat_eq(ty, mul_matrix(ty, m, rm), identity(ty))

C2_Witness ==
    /\ Returned("inverse_se3") /\ IsRigid(m)
    /\ m[0][0] = zero /\ m[0][1] = F(-1) /\ m[3][0] = F(2) /\ m[3][2] = F(-1)
    /\ rm[3][1] = F(2)

\* C3: for a rotation-only matrix R (column 3 equal to (0, 0, 0, 1), lane 3 of
\* columns 0..2 zero, finite 3x3 block, of which the orthonormal blocks are a
\* case), R.inverse_se3() == R.transpose().
C3_RotationInverseIsTranspose ==
    (/\ Returned("inverse_se3")
     /\ RotationFrame(m)
     /\ \A j, i \in Lanes3 : IsFinite(m[j][i])) =>
        Mat_eq(ty, rm, transpose(ty, m))

C3_Witness ==
    /\ Returned("inverse_se3") /\ RotationFrame(m) /\ Orthonormal3(m)
    /\ m[0][1] = F(-1) /\ m[1][0] = one /\ rm[0][1] = one /\ rm[1][0] = F(-1)

DocM1M2(M) ==
    LET V == ColumnType(M) IN
    from_columns(M,
        Vec4_new(V, F(538), F(612), F(686), F(760)),
        Vec4_new(V, F(650), F(740), F(830), F(920)),
        Vec4_new(V, F(762), F(868), F(974), F(1080)),
        Vec4_new(V, F(874), F(996), F(1118), F(1240)))

\* C5: column j of A.mul_matrix(B), which is also A * B, is A.mul_vector(B[j])
\* for each j; m1 * m2 of the documentation is the matrix it gives.
C5_MulMatrixByColumns ==
    Returned("mul_matrix") =>
        /\ \A j \in Lanes4 : rm[j] = mul_vector(ty, m, n[j])
        /\ (m = DocM1(ty) /\ n = DocM2(ty)) => rm = DocM1M2(ty)

C5_Witness ==
    /\ Returned("mul_matrix") /\ m = DocM1(ty) /\ n = DocM2(ty)
    /\ rm[3][3] = F(1240) /\ rm[2][0] = F(762)

\* C6: lanes 0..2 of a.cross(b) are (a1*b2 - a2*b1, a2*b0 - a0*b2,
\* a0*b1 - a1*b0) and are those of the cross product of the same operands with
\* lane 3 cleared, whatever lane 3 of a and of b hold;
\* twice the documentation example, (2,3,5,6) x (12,18,5,6), gives (-75, 50, 0).
C6_CrossLanes012 ==
    Returned("cross") =>
        /\ rv[0] = fsub(fmul(a[1], b[2]), fmul(a[2], b[1]))
        /\ rv[1] = fsub(fmul(a[2], b[0]), fmul(a[0], b[2]))
        /\ rv[2] = fsub(fmul(a[0], b[1]), fmul(a[1], b[0]))
        /\ LET r == cross(ty, Vec_index_set(a, 3, zero), Vec_index_set(b, 3, zero))
           IN \A i \in Lanes3 : r[i] = rv[i]
        /\ (a = DocA(ty) /\ b = DocB2(ty)) =>
             (rv[0] = F(-75) /\ rv[1] = F(50) /\ rv[2] = zero)

C6_Witness ==
    /\ Returned("cross") /\ a = DocA(ty) /\ b = Vec_index_set(DocB2(ty), 3, NaN)
    /\ rv[0] = F(-75) /\ rv[1] = F(50)

\* C7: lane 3 of a.cross(b) is zero whatever lane 3 of a and of b hold.
C7_CrossLane3Zero ==
    Returned("cross") => IsZero(rv[3])

\* C8 as stated: a.cross(b) == -(b.cross(a)) for all 4-wide vectors a and b.
C8_CrossAntiCommutesAlways ==
    Returned("cross") => Vec_eq(ty, rv, Vec_neg(ty, cross(ty, b, a)))

\* C8 amended: a.cross(b) == -(b.cross(a)) holds exactly, under the vector
\* equality operator, precisely when no lane of a.cross(b) is NaN; it holds in
\* particular whenever all lanes of a and b are finite.
C8_CrossAntiCommutes ==
    Returned("cross") =>
        /\ Vec_eq(ty, rv, Vec_neg(ty, cross(ty, b, a))) <=>
             \A i \in Lanes4 : ~IsNaN(rv[i])
        /\ (\A i \in Lanes4 : IsFinite(a[i]) /\ IsFinite(b[i])) =>
             \A i \in Lanes4 : ~IsNaN(rv[i])

C8_Witness ==
    /\ Returned("cross") /\ a = DocA(ty) /\ b = DocB2(ty)
    /\ rv[0] = F(-75) /\ Vec_neg(ty, cross(ty, b, a))[0] = F(-75)

\* C9: for each of the four vector types a.eq_reduce(b), to which a == b
\* delegates, is true exactly when every lane of a is IEEE-754-equal to the same
\* lane of b: +0.0 equals -0.0, one differing lane or one NaN lane makes it false.
C9_EqReduceLanewise ==
    Returned("eq_reduce") =>
        (rb <=> \A i \in DOMAIN a : IeeeEqual(a[i], b[i]))

C9_Witness ==
    /\ Returned("eq_reduce") /\ ty = "Dvec4" /\ a = b
    /\ IsNaN(a[3]) /\ \A i \in Lanes3 : ~IsNaN(a[i])
    /\ rb = FALSE

\* C10: when exactly one of the two operand lanes of min_componentwise or
\* max_componentwise is NaN, the result lane is the other operand.
C10_MinMaxNonNaNWins ==
    (Returned("min_componentwise") \/ Returned("max_componentwise")) =>
        \A i \in DOMAIN a :
            (IsNaN(a[i]) # IsNaN(b[i])) =>
                rv[i] = IF IsNaN(a[i]) THEN b[i] ELSE a[i]

\* No lane of v is NaN.
NoNaN(v) == \A i \in DOMAIN v : ~IsNaN(v[i])

\* The naive two-operand minimum and maximum of ordered scalars.
NaiveMin(x, y) == IF flt(y, x) THEN y ELSE x
NaiveMax(x, y) == IF flt(x, y) THEN y ELSE x

\* The left-to-right folds of the lanes of v.
FoldMin(v) ==
    IF DOMAIN v = Lanes2 THEN NaiveMin(v[0], v[1])
    ELSE NaiveMin(NaiveMin(NaiveMin(v[0], v[1]), v[2]), v[3])
FoldMax(v) ==
    IF DOMAIN v = Lanes2 THEN NaiveMax(v[0], v[1])
    ELSE NaiveMax(NaiveMax(NaiveMax(v[0], v[1]), v[2]), v[3])

\* C11: for a vector of any of the four types with no NaN lane, min_reduce
\* returns the smallest lane value and max_reduce the largest: the result is
\* the value of one of the lanes, no lane is below (above) it, and it equals the
\* naive left-to-right fold of min (max) over the lanes.
C11_ReduceIsFold ==
    /\ (Returned("min_reduce") /\ NoNaN(a)) =>
          /\ \E i \in DOMAIN a : rs = a[i]
          /\ \A i \in DOMAIN a : ~flt(a[i], rs)
          /\ feq(rs, FoldMin(a))
    /\ (Returned("max_reduce") /\ NoNaN(a)) =>
          /\ \E i \in DOMAIN a : rs = a[i]
          /\ \A i \in DOMAIN a : ~flt(rs, a[i])
          /\ feq(rs, FoldMax(a))

C11_Witness ==
    /\ Returned("max_reduce") /\ ty = "Fvec4"
    /\ a = Vec4_new(ty, F(1), NegInf, F(-2), F(2))
    /\ rs = F(2)

\* The sum of the magnitudes of the lane products, and the sum of the lane
\* products, of two vectors with finite lanes.
AbsProducts(x, y) ==
    IF DOMAIN x = Lanes2 THEN x[0].g * y[0].g + x[1].g * y[1].g
    ELSE x[0].g * y[0].g + x[1].g * y[1].g + x[2].g * y[2].g + x[3].g * y[3].g
SumProducts(x, y) ==
    IF DOMAIN x = Lanes2 THEN IntOf(x[0]) * IntOf(y[0]) + IntOf(x[1]) * IntOf(y[1])
    ELSE IntOf(x[0]) * IntOf(y[0]) + IntOf(x[1]) * IntOf(y[1])
         + IntOf(x[2]) * IntOf(y[2]) + IntOf(x[3]) * IntOf(y[3])

\* Finite lanes whose products cannot overflow, alone or summed in any order.
InRange(x, y) ==
    /\ \A i \in DOMAIN x : IsFinite(x[i]) /\ IsFinite(y[i])
    /\ AbsProducts(x, y) <= MaxFinite

\* C12: a.dot(b) is the sum of the lane-wise products: a0*b0 + a1*b1 for the
\* 2-wide types, and for Dvec4 and Fvec4 alike the four products summed as
\* (a0*b0 + a2*b2) + (a1*b1 + a3*b3), each product and each sum rounded on its
\* own; where nothing overflows this is the exact sum of the products, and twice
\* the documentation example, (2,3,5,6) . (12,18,5,6), gives 139.
C12_DotPairedSum ==
    Returned("dot") =>
        /\ LET p == [i \in DOMAIN a |-> fmul(a[i], b[i])] IN
             rs = IF DOMAIN a = Lanes2 THEN fadd(p[0], p[1])
                  ELSE fadd(fadd(p[0], p[2]), fadd(p[1], p[3]))
        /\ InRange(a, b) => feq(rs, F(SumProducts(a, b)))
        /\ (ty \in VecTypes4 /\ a = DocA(ty) /\ b = DocB2(ty)) => rs = F(139)

C12_Witness ==
    /\ Returned("dot") /\ ty = "Fvec4"
    /\ a = Vec4_new(ty, F(MaxFinite), F(MaxFinite), F(-MaxFinite), zero)
    /\ b = splat(ty, one)
    /\ rs = F(MaxFinite)

\* C13: the dot product and the lane-wise product commute: a.dot(b) and
\* b.dot(a) are the same value, a * b and b * a have the same lanes, and the
\* equality operators say so (a.dot(b) == b.dot(a), a * b == b * a) exactly
\* when the value, or every lane, is not NaN, which is the case for finite
\* lanes whose products do not overflow.
C13_ProductsCommute ==
    /\ Returned("dot") =>
          /\ rs = dot(ty, b, a)
          /\ feq(rs, dot(ty, b, a)) <=> ~IsNaN(rs)
          /\ InRange(a, b) => feq(rs, dot(ty, b, a))
    /\ Returned("v*v") =>
          /\ rv = Vec_op(ty, "*", b, a)
          /\ Vec_eq(ty, rv, Vec_op(ty, "*", b, a)) <=> NoNaN(rv)
          /\ InRange(a, b) => Vec_eq(ty, rv, Vec_op(ty, "*", b, a))

C13_Witness ==
    /\ Returned("dot") /\ ty = "Fvec2"
    /\ a = Vec2_new(ty, F(2), F(-1)) /\ b = Vec2_new(ty, F(1), F(2))
    /\ rs = zero /\ dot(ty, b, a) = zero

\* Every lane of every column of p is finite; no lane is NaN.
FiniteMat(p) == \A j, i \in Lanes4 : IsFinite(p[j][i])
NoNaNMat(p) == \A j \in Lanes4 : NoNaN(p[j])

\* C14: identity() has ones on the diagonal and zeros elsewhere, and for every
\* matrix M with finite lanes M * identity() == M and identity() * M == M; the
\* two equalities hold for no other M (an infinite or NaN lane meets a zero of
\* the identity and gives a NaN lane).
C14_IdentityNeutral ==
    Returned("mul_matrix") =>
        /\ \A j, i \in Lanes4 : identity(ty)[j][i] = IF i = j THEN one ELSE zero
        /\ n = identity(ty) => (Mat_eq(ty, rm, m) <=> FiniteMat(m))
        /\ m = identity(ty) => (Mat_eq(ty, rm, n) <=> FiniteMat(n))

C14_Witness ==
    /\ Returned("mul_matrix") /\ ty = "Dmat4"
    /\ m = identity(ty) /\ n = DocM1(ty)
    /\ rm[3][3] = F(16) /\ rm[0][1] = F(2)

\* C15: in either precision M.transpose().transpose() is M lane for lane, and
\* M.transpose().transpose() == M holds for every M without a NaN lane.
C15_TransposeInvolution ==
    Returned("transpose") =>
        /\ transpose(ty, rm) = m
        /\ Mat_eq(ty, transpose(ty, rm), m) <=> NoNaNMat(m)

C15_Witness ==
    /\ Returned("transpose") /\ ty = "Fmat4"
    /\ m = Mat_index_set(DocM1(ty), 2, Vec_index_set(DocM1(ty)[2], 0, NegInf))
    /\ rm[0][2] = NegInf /\ transpose(ty, rm)[2][0] = NegInf

\* The scalar operation an operator symbol stands for.
ScalarOp(o, x, y) ==
    CASE o = "+" -> fadd(x, y)
      [] o = "-" -> fsub(x, y)
      [] o = "*" -> fmul(x, y)
      [] o = "/" -> fdiv(x, y)

\* C16: for each of the four vector types, every scalar s and vector v:
\* v + s, v - s, v * s, v / s are v combined with splat(s), the scalar-left
\* forms s + v, s - v, s * v, s / v are defined and are splat(s) combined with
\* v, and s * v and s + v have the lanes of v * s and v + s.
C16_ScalarForms ==
    /\ (pc = "ret" /\ op \in VecScalarOps) =>
          /\ rv = Vec_op(ty, Symbol(op), a, splat(ty, sc))
          /\ \A i \in DOMAIN a : rv[i] = ScalarOp(Symbol(op), a[i], sc)
    /\ (pc # "call" /\ op \in ScalarVecOps) =>
          /\ pc = "ret"
          /\ rv = Vec_op(ty, Symbol(op), splat(ty, sc), a)
          /\ \A i \in DOMAIN a : rv[i] = ScalarOp(Symbol(op), sc, a[i])
          /\ op \in {"s*v", "s+v"} => rv = Vec_op_scalar(ty, Symbol(op), a, sc)

\* C17: every lane of -v is 0.0 minus the lane of v, so a +0.0 lane stays +0.0
\* (and a -0.0 lane becomes +0.0); -v is splat(0).sub_componentwise(v); every
\* lane of every column of -M is 0.0 minus that lane of M.
C17_NegIsZeroMinus ==
    /\ Returned("-v") =>
          /\ rv = sub_componentwise(ty, splat(ty, zero), a)
          /\ \A i \in DOMAIN a :
                /\ rv[i] = fsub(zero, a[i])
                /\ IsZero(a[i]) => rv[i] = zero
    /\ Returned("-m") =>
          \A j, i \in Lanes4 :
              /\ rm[j][i] = fsub(zero, m[j][i])
              /\ IsZero(m[j][i]) => rm[j][i] = zero

C17_Witness ==
    /\ Returned("-v") /\ ty = "Dvec4"
    /\ a = Vec4_new(ty, zero, NegZero, F(2), NegInf)
    /\ rv = Vec4_new(ty, zero, zero, F(-2), PosInf)

\* The number of lanes of the vector type, or of columns of the matrix type, ty.
Width == IF ty \in VecTypes2 THEN 2 ELSE 4

\* C18: the array and index view follows the lane order x, y, (z, w):
\* new(x, y, z, w).as_array() is [x, y, z, w] and v[i] is lane i; the write
\* v[i] = s sets lane i to s and leaves every other lane as it was, and a read
\* or a componentwise operation after it sees s in lane i; M[j] is column j, and
\* the write M[j] = v sets column j to v and leaves every other column as it was.
C18_IndexView ==
    /\ [](Returned("new") =>
            as_array(rv) = IF ty \in VecTypes2 THEN <<a[0], a[1]>>
                           ELSE <<a[0], a[1], a[2], a[3]>>)
    /\ [](Returned("v[i]") => (rs = a[ix] /\ rs = as_array(a)[ix + 1]))
    /\ [][(pc = "call" /\ op = "v[i]=s" /\ pc' = "ret") =>
            /\ a'[ix] = sc
            /\ \A k \in DOMAIN a : k # ix => a'[k] = a[k]
            /\ ArrayIndex(as_array(a'), ix) = [ok |-> TRUE, value |-> sc]
            /\ add_componentwise(ty, a', splat(ty, zero))[ix] = fadd(sc, zero)]_vars
    /\ [](Returned("m[j]") => rv = m[ix])
    /\ [][(pc = "call" /\ op = "m[j]=v" /\ pc' = "ret") =>
            /\ m'[ix] = a
            /\ \A k \in Lanes4 : k # ix => m'[k] = m[k]
            /\ ArrayIndex(as_array(m'), ix) = [ok |-> TRUE, value |-> a]]_vars

C18_Witness ==
    /\ Returned("v[i]=s") /\ ty = "Dvec4" /\ ix = 2 /\ sc = NegInf
    /\ a = Vec4_new(ty, F(2), F(3), NegInf, F(6))

\* C19: an index read or write of a 2-wide vector with an index of 2 or more,
\* or of a 4-wide vector or a matrix with an index of 4 or more, panics, and
\* no other one does; the panic yields no lane or column and leaves the vector
\* and the matrix as they were.
C19_OutOfRangePanics ==
    /\ []((pc # "call" /\ op \in {"v[i]", "v[i]=s", "m[j]", "m[j]=v"}) =>
            (pc = "panic" <=> ix >= Width))
    /\ [](pc = "panic" => (rs = zero /\ rv = ZeroVec /\ rm = ZeroMat))
    /\ [][pc' = "panic" => (a' = a /\ m' = m)]_vars

C19_Witness ==
    /\ pc = "panic" /\ op = "v[i]=s" /\ ty = "Fvec2" /\ ix = 2
    /\ a = Vec2_new(ty, F(1), F(2)) /\ sc = F(-1)
\* C21: from_rows(r0, r1, r2, r3) stores lane i of column j equal to r_i[j]; it
\* is, lane for lane, the transpose of the matrix whose columns are the rows
\* (and == to it when no lane is NaN); from_columns(c0, c1, c2, c3)[j] is c_j.
C21_FromRowsTransposes ==
    Returned("from_rows") =>
        LET V == ColumnType(ty)
            cols == from_columns(ty,
                        Vec4_new(V, m[0][0], m[0][1], m[0][2], m[0][3]),
                        Vec4_new(V, m[1][0], m[1][1], m[1][2], m[1][3]),
                        Vec4_new(V, m[2][0], m[2][1], m[2][2], m[2][3]),
                        Vec4_new(V, m[3][0], m[3][1], m[3][2], m[3][3]))
        IN /\ \A i, j \in Lanes4 : rm[j][i] = m[i][j]
           /\ rm = transpose(ty, cols)
           /\ Mat_eq(ty, rm, transpose(ty, cols)) <=> NoNaNMat(m)
           /\ \A j \in Lanes4 :
                 ArrayIndex(as_array(cols), j) =
                     [ok |-> TRUE, value |-> Vec4_new(V, m[j][0], m[j][1], m[j][2], m[j][3])]

C21_Witness ==
    /\ Returned("from_rows") /\ ty = "Fmat4" /\ m = DocM1(ty)
    /\ rm[0] = Vec4_new("Fvec4", F(1), F(5), F(9), F(13))
    /\ rm[3][0] = F(4)
\* What a call of a shared operation on a 2-wide vector type T returns for the
\* operands of the state: the vector, the scalar and the boolean result.
Shared2Result(T) ==
    CASE op \in {"v+v", "v-v", "v*v", "v/v"} ->
              <<Vec_op(T, Symbol(op), a, b), zero, FALSE>>
      [] op = "min_componentwise" -> <<min_componentwise(T, a, b), zero, FALSE>>
      [] op = "max_componentwise" -> <<max_componentwise(T, a, b), zero, FALSE>>
      [] op = "floor" -> <<Vec2_floor(T, a), zero, FALSE>>
      [] op = "min_reduce" -> <<ZeroVec, min_reduce(T, a), FALSE>>
      [] op = "max_reduce" -> <<ZeroVec, max_reduce(T, a), FALSE>>
      [] op = "eq_reduce" -> <<ZeroVec, zero, eq_reduce(T, a, b)>>
      [] op = "dot" -> <<ZeroVec, dot(T, a, b), FALSE>>

\* C22: on the same lane inputs every operation shared by Dvec2 and Fvec2
\* (add, sub, mul, div, min, max, floor, min_reduce, max_reduce, eq_reduce,
\* dot) returns the same result for both types, NaN and signed-zero lanes
\* included.
C22_ScalarAndSimdAgree ==
    (pc = "ret" /\ ty \in VecTypes2 /\ op \in Shared2Ops) =>
        /\ <<rv, rs, rb>> = Shared2Result("Dvec2")
        /\ <<rv, rs, rb>> = Shared2Result("Fvec2")

\* The part of C22 that the code does satisfy: outside min / max and their
\* reductions the two types agree on every operand; min / max and the
\* reductions agree when no operand lane is NaN and no two compared lanes are
\* zeros of opposite sign.
C22_AgreeOutsideMinMax ==
    (pc = "ret" /\ ty \in VecTypes2 /\ op \in Shared2Ops
        /\ \/ op \notin {"min_componentwise", "max_componentwise",
                         "min_reduce", "max_reduce"}
           \/ /\ NoNaN(a) /\ NoNaN(b)
              /\ op \in {"min_componentwise", "max_componentwise"} =>
                    \A i \in Lanes2 : ~(IsZero(a[i]) /\ IsZero(b[i]) /\ a[i] # b[i])
              /\ op \in {"min_reduce", "max_reduce"} =>
                    ~(IsZero(a[0]) /\ IsZero(a[1]) /\ a[0] # a[1]))
    => Shared2Result("Dvec2") = Shared2Result("Fvec2")
\* C23: v.normalize() is v divided lane by lane by the norm sqrt(v.dot(v)), for
\* every v; a call never panics, and when the norm is zero it still returns a
\* vector, a lane 0 / 0 being NaN and any lane divided by zero NaN or an
\* infinity.
C23_NormalizeDividesByNorm ==
    /\ op = "normalize" => pc \in {"call", "ret"}
    /\ Returned("normalize") =>
          LET nrm == fsqrt(dot(ty, a, a)) IN
          /\ rv = div_componentwise(ty, a, splat(ty, nrm))
          /\ \A i \in DOMAIN a : rv[i] = fdiv(a[i], nrm)
          /\ IsZero(nrm) =>
                /\ \A i \in DOMAIN a :
                      /\ rv[i].c \in {"nan", "inf"}
                      /\ IsZero(a[i]) => IsNaN(rv[i])
                /\ \A x \in Scalars :
                      /\ fdiv(x, nrm).c \in {"nan", "inf"}
                      /\ IsZero(x) => IsNaN(fdiv(x, nrm))

C23_Witness ==
    /\ Returned("normalize") /\ ty = "Dvec4" /\ a = DocA(ty)
    /\ fsqrt(dot(ty, a, a)) = F(9)
    /\ rv = Vec4_new(ty, zero, zero, one, one)

\* A call on a vector of zero norm returns, every lane NaN.
C23_ZeroNormWitness ==
    /\ Returned("normalize") /\ ty = "Fvec2" /\ a = Vec2_new(ty, zero, NegZero)
    /\ rv = Vec2_new(ty, NaN, NaN)
\* C24: a + splat(0) and a * splat(1) have the lanes of a up to the sign of a
\* zero (-0.0 + 0.0 is +0.0), and are == a for every valid a, that is exactly
\* when no lane of a is NaN.
C24_NeutralElements ==
    /\ (Returned("v+v") /\ b = splat(ty, zero)) =>
          /\ Vec_eq(ty, rv, a) <=> NoNaN(a)
          /\ \A i \in DOMAIN a : rv[i] = IF a[i] = NegZero THEN zero ELSE a[i]
    /\ (Returned("v*v") /\ b = splat(ty, one)) =>
          /\ Vec_eq(ty, rv, a) <=> NoNaN(a)
          /\ rv = a

C24_Witness ==
    /\ Returned("v*v") /\ ty = "Dvec4" /\ a = DocA(ty) /\ b = splat(ty, one)
    /\ Vec_eq(ty, rv, a)

C24_AddWitness ==
    /\ Returned("v+v") /\ ty = "Fvec2" /\ a = Vec2_new(ty, F(-2), PosInf)
    /\ b = splat(ty, zero) /\ Vec_eq(ty, rv, a)
\* C25: inverse_se3 returns for every matrix M, rigid or not: lane 3 of columns
\* 0, 1 and 2 of the result is 0, lane 3 of column 3 is exactly 1, and columns
\* 0..2 are those of the transpose of M with its column 3 replaced by
\* (0, 0, 0, 1), so lane i of column j is lane j of column i of M for i, j < 3.
C25_Se3OnAnyMatrix ==
    /\ op = "inverse_se3" => pc \in {"call", "ret"}
    /\ Returned("inverse_se3") =>
          LET V == ColumnType(ty)
              t == transpose(ty, Mat_index_set(m, 3, Vec4_new(V, zero, zero, zero, one)))
          IN /\ \A j \in Lanes3 : rm[j][3] = zero /\ rm[j] = t[j]
             /\ \A i, j \in Lanes3 : rm[j][i] = m[i][j]
             /\ rm[3][3] = one

C25_Witness ==
    /\ Returned("inverse_se3") /\ ty = "Dmat4" /\ m = DocM1(ty) /\ ~IsRigid(m)
    /\ rm[0] = Vec4_new("Dvec4", F(1), F(5), F(9), zero)
    /\ rm[3][3] = one
\* C27: on an exact rigid transform M (signed-permutation rotation block,
\* integer translation, bottom row (0, 0, 0, 1)) inverse_se3 is an involution:
\* M.inverse_se3().inverse_se3() == M.
C27_Se3Involution ==
    (Returned("inverse_se3") /\ IsRigid(m)) =>
        /\ IsRigid(rm)
        /\ Mat_eq(ty, inverse_se3(ty, rm), m)

C27_Witness ==
    /\ Returned("inverse_se3") /\ IsRigid(m) /\ ty = "Fmat4"
    /\ m[0] = Vec4_new("Fvec4", zero, one, zero, zero)
    /\ m[3] = Vec4_new("Fvec4", F(1), F(2), F(-1), one)
    /\ ~Mat_eq(ty, rm, m)
    /\ Mat_eq(ty, inverse_se3(ty, rm), m)
\* C26: a compound assignment stores in its left operand what the pure
\* operator returns for the same operands and changes nothing else: a op= b
\* (b a vector or a scalar, op one of + - * /) leaves in a the lanes
\* a[i] op b[i]; M += N and M -= N leave in M the columns M[j] op N[j], and
\* M *= N the old M.mul_matrix(N). The operators that do not assign leave
\* both operands as they were.
C26_CompoundAssignments ==
    [][/\ (pc = "call" /\ op \in VecAssignOps) =>
            /\ pc' = "ret"
            /\ a' = Vec_op(ty, Symbol(op), a, b)
            /\ \A i \in DOMAIN a : a'[i] = ScalarOp(Symbol(op), a[i], b[i])
            /\ UNCHANGED <<ty, op, b, m, n, sc, ix, rv, rm, rb, rs>>
       /\ (pc = "call" /\ op \in VecAssignScalarOps) =>
            /\ pc' = "ret"
            /\ a' = Vec_op_scalar(ty, Symbol(op), a, sc)
            /\ \A i \in DOMAIN a : a'[i] = ScalarOp(Symbol(op), a[i], sc)
            /\ UNCHANGED <<ty, op, b, m, n, sc, ix, rv, rm, rb, rs>>
       /\ (pc = "call" /\ op \in MatAssignOps) =>
            /\ pc' = "ret"
            /\ m' = Mat_op(ty, Symbol(op), m, n)
            /\ op = "m*=m" => m' = mul_matrix(ty, m, n)
            /\ op \in {"m+=m", "m-=m"} =>
                  \A j, i \in Lanes4 : m'[j][i] = ScalarOp(Symbol(op), m[j][i], n[j][i])
            /\ UNCHANGED <<ty, op, a, b, n, sc, ix, rv, rm, rb, rs>>
       /\ (pc = "call" /\ op \in {"v+v", "v-v", "v*v", "v/v"} \cup VecScalarOps \cup MatOps) =>
            /\ pc' = "ret"
            /\ UNCHANGED <<ty, op, a, b, m, n, sc, ix>>
      ]_vars

C26_Witness ==
    /\ Returned("v-=v") /\ ty = "Dvec4" /\ b = DocB2(ty)
    /\ a = Vec4_new(ty, F(-10), F(-15), zero, zero)

C26_MatWitness ==
    /\ Returned("m*=m") /\ ty = "Fmat4" /\ n = DocM2(ty) /\ m = DocM1M2(ty)
=============================================================================
